---- MODULE Spec2Model ----
(***************************************************************************)
(* Model of easybuild/easyblocks/a/aomp.py: the EB_AOMP easyblock.         *)
(*                                                                         *)
(* Python strings are TLA+ strings, handled character by character with    *)
(* Len, SubSeq and \o.  Python lists are TLA+ sequences.  A value that may *)
(* be None is a record [some, val]: NoValue is None, Some(s) is the        *)
(* string s.                                                               *)
(***************************************************************************)
EXTENDS Integers, Sequences, FiniteSets, TLC

(***************************************************************************)
(* Python string primitives used by the easyblock.                         *)
(***************************************************************************)

\* s[i], 1-based
CharAt(s, i) == SubSeq(s, i, i)

\* s[i:], 1-based
StrFrom(s, i) == SubSeq(s, i, Len(s))

\* str.replace(old, '') for a one-character old: every occurrence is dropped
RECURSIVE str_replace_empty(_, _)
str_replace_empty(s, old) ==
    IF Len(s) = 0 THEN ""
    ELSE (IF CharAt(s, 1) = old THEN "" ELSE CharAt(s, 1))
             \o str_replace_empty(StrFrom(s, 2), old)

\* sep.join(list)
RECURSIVE str_join(_, _)
str_join(sep, list) ==
    IF Len(list) = 0 THEN ""
    ELSE IF Len(list) = 1 THEN list[1]
    ELSE list[1] \o sep \o str_join(sep, Tail(list))

\* index of the first occurrence of the character c in s, 0 when there is none
RECURSIVE str_find(_, _, _)
str_find(s, c, i) ==
    IF i > Len(s) THEN 0
    ELSE IF CharAt(s, i) = c THEN i
    ELSE str_find(s, c, i + 1)

\* index of the last occurrence of the character c in s, 0 when there is none
RECURSIVE str_rfind(_, _, _)
str_rfind(s, c, i) ==
    IF i < 1 THEN 0
    ELSE IF CharAt(s, i) = c THEN i
    ELSE str_rfind(s, c, i - 1)

\* s.split(sep) for a one-character sep
RECURSIVE str_split(_, _)
str_split(s, sep) ==
    LET i == str_find(s, sep, 1)
    IN IF i = 0 THEN <<s>>
       ELSE <<SubSeq(s, 1, i - 1)>> \o str_split(StrFrom(s, i + 1), sep)

\* s.startswith(p)
str_startswith(s, p) == Len(s) >= Len(p) /\ SubSeq(s, 1, Len(p)) = p

\* p in s
str_contains(s, p) ==
    \E i \in 1..(Len(s) - Len(p) + 1) : SubSeq(s, i, i + Len(p) - 1) = p

(***************************************************************************)
(* Optional values: what a lookup that may return None yields.             *)
(***************************************************************************)
NoValue == [some |-> FALSE, val |-> ""]
Some(s) == [some |-> TRUE, val |-> s]

\* Python truth value of an optional string: None and '' are false
Truthy(v) == v.some /\ v.val # ""

\* '{!s}'.format(v): str(None) is 'None'
FormatStr(v) == IF v.some THEN v.val ELSE "None"

\* a or b
PyOr(a, b) == IF Truthy(a) THEN a ELSE b

(***************************************************************************)
(* Module constants, aomp.py lines 16-25.                                  *)
(***************************************************************************)
\* a catalog that misses one of the x86 names
AOMP_ALL_COMPONENTS_without_ocl ==
    <<"roct", "rocr", "project", "libdevice", "openmp",
      "extras", "pgmath", "flang", "flang_runtime", "comgr",
      "rocminfo", "vdi", "hipvdi", "rocdbgapi",
      "rocgdb", "roctracer", "rocprofiler">>

AOMP_ALL_COMPONENTS ==
    <<"roct", "rocr", "project", "libdevice", "openmp",
      "extras", "pgmath", "flang", "flang_runtime", "comgr",
      "rocminfo", "vdi", "hipvdi", "ocl", "rocdbgapi",
      "rocgdb", "roctracer", "rocprofiler">>

AOMP_DEFAULT_COMPONENTS ==
    <<"roct", "rocr", "project", "libdevice", "openmp",
      "extras", "pgmath", "flang", "flang_runtime",
      "comgr", "rocminfo">>

AOMP_X86_COMPONENTS == <<"vdi", "hipvdi", "ocl">>

AOMP_DBG_COMPONENTS == <<"rocdbgapi", "rocgdb">>

AOMP_PROF_COMPONENTS == <<"roctracer", "rocprofiler">>

\* the set of the elements of a list
Elems(list) == {list[i] : i \in 1..Len(list)}

\* a list without repeated elements
NoDup(list) == Cardinality(Elems(list)) = Len(list)

(***************************************************************************)
(* The inputs the framework and the environment hand to the easyblock.     *)
(***************************************************************************)

\* self.version
Versions == {"17.0-3", "13.0-2"}

\* self.installdir and self.builddir, as the framework derives them
InstallDirOf(v) == "/sw/AOMP/" \o v
BuildDirOf(v) == "/build/AOMP/" \o v

\* what get_software_root(name) can return: None or the root path
RootsOf(name) == {NoValue, Some("/sw/" \o name)}

\* the values of build_option('cuda_compute_capabilities')
BuildOptionCCs == {<<>>, <<"8.0">>, <<"7.0", "8.6">>}

\* the values of the recipe field cuda_compute_capabilities (default [])
RecipeCCs == {<<>>, <<"6.1">>, <<"7.0", "8.6">>}

\* the values of the recipe field parallel; 0 stands for every false value
Parallels == {0, 4}

\* the values of the recipe field components (default None); <<>> stands for
\* None and for [], which `not components` does not tell apart
RecipeComponents == {<<>>, <<"openmp", "rocgdb">>, <<"flang", "notacomponent", "roct">>}

VARIABLES
    self,                 \* the easyblock's own fields: version, installdir, builddir
    cfg,                  \* self.cfg, the configuration record
    env,                  \* software roots and global build options
    fs,                   \* the file system: path -> directory entry
    configure_result,     \* how the last configure_step ended
    post_install_result   \* how the last post_install_step ended

vars == <<self, cfg, env, fs, configure_result, post_install_result>>

\* get_software_root(name)
get_software_root(name) == env.roots[name]

\* build_option(key)
build_option(key) == env.build_options[key]

(***************************************************************************)
(* EB_AOMP.configure_step, aomp.py lines 47-101.                           *)
(***************************************************************************)

\* line 50
INSTALL_CMD == "./aomp/bin/build_aomp.sh"

\* line 52
version_major == str_split(self.version, ".")[1]

\* lines 53-60
base_install_options ==
    << "AOMP=" \o self.installdir,
       "AOMP_REPOS=\"" \o self.builddir \o "/aomp" \o version_major \o "\"",
       "AOMP_CMAKE=" \o FormatStr(get_software_root("CMake")) \o "/bin/cmake",
       "AOMP_CHECK_GIT_BRANCH=0",
       "AOMP_APPLY_ROCM_PATCHES=0",
       "AOMP_STANDALONE_BUILD=1" >>

\* lines 61-65
num_threads_option ==
    IF cfg.parallel # 0
    THEN "NUM_THREADS=" \o ToString(cfg.parallel)
    ELSE "NUM_THREADS=1"

\* line 67
cuda_loaded ==
    Truthy(get_software_root("CUDA")) \/ Truthy(get_software_root("CUDAcore"))

\* the two names looked up in the other order
cuda_root_cudacore_first ==
    PyOr(get_software_root("CUDAcore"), get_software_root("CUDA"))

\* line 68
cuda_root == PyOr(get_software_root("CUDA"), get_software_root("CUDAcore"))

\* the recipe field taking precedence over the global build option
selected_cuda_cc_recipe_first ==
    IF Len(cfg.cuda_compute_capabilities) > 0
    THEN cfg.cuda_compute_capabilities
    ELSE build_option("cuda_compute_capabilities")

\* lines 73-74
selected_cuda_cc ==
    IF Len(build_option("cuda_compute_capabilities")) > 0
    THEN build_option("cuda_compute_capabilities")
    ELSE cfg.cuda_compute_capabilities

\* lines 81-82
cuda_str(cuda_cc) ==
    str_join(",", [i \in 1..Len(cuda_cc) |-> str_replace_empty(cuda_cc[i], ".")])

\* lines 69-70 and 83
cuda_options ==
    << "AOMP_BUILD_CUDA=1",
       "CUDA=\"" \o FormatStr(cuda_root) \o "\"",
       "NVPTXGPUS=\"" \o cuda_str(selected_cuda_cc) \o "\"" >>

\* lines 53-86: the whole list of options
install_options ==
    base_install_options \o <<num_threads_option>>
        \o (IF cuda_loaded THEN cuda_options ELSE <<"AOMP_BUILD_CUDA=0">>)

\* the default extended by the x86 components (the code of lines 97-99,
\* which the source keeps commented out)
selected_components_with_x86 ==
    IF Len(cfg.components) = 0
    THEN AOMP_DEFAULT_COMPONENTS \o AOMP_X86_COMPONENTS
    ELSE cfg.components

\* lines 90-93
selected_components ==
    IF Len(cfg.components) = 0 THEN AOMP_DEFAULT_COMPONENTS ELSE cfg.components

\* line 101
installopts_string == "select " \o str_join(" ", selected_components)

\* lines 75-79: the step raises EasyBuildError
configure_raises == cuda_loaded /\ Len(selected_cuda_cc) = 0

\* the capability check moved after the write of preinstallopts
configure_step_check_after_write ==
    /\ IF configure_raises
       THEN /\ cfg' = [cfg EXCEPT !.install_cmd = Some(INSTALL_CMD),
                                  !.preinstallopts = str_join(" ", install_options)]
            /\ configure_result' = "error_no_cuda_cc"
       ELSE /\ cfg' = [cfg EXCEPT !.install_cmd = Some(INSTALL_CMD),
                                  !.preinstallopts = str_join(" ", install_options),
                                  !.installopts = installopts_string]
            /\ configure_result' = "ok"
    /\ UNCHANGED <<self, env, fs, post_install_result>>

configure_step ==
    /\ IF configure_raises
       THEN /\ cfg' = [cfg EXCEPT !.install_cmd = Some(INSTALL_CMD)]
            /\ configure_result' = "error_no_cuda_cc"
       ELSE /\ cfg' = [cfg EXCEPT !.install_cmd = Some(INSTALL_CMD),
                                  !.preinstallopts = str_join(" ", install_options),
                                  !.installopts = installopts_string]
            /\ configure_result' = "ok"
    /\ UNCHANGED <<self, env, fs, post_install_result>>

(***************************************************************************)
(* The file system, as far as os.path and os see it.  A directory entry is *)
(* absent, a regular file, a directory or a symbolic link; ino tells two   *)
(* files or directories apart, target is where a link points.              *)
(***************************************************************************)
Absent == [kind |-> "absent", ino |-> 0, target |-> ""]
File(n) == [kind |-> "file", ino |-> n, target |-> ""]
Dir(n) == [kind |-> "dir", ino |-> n, target |-> ""]
Link(t) == [kind |-> "link", ino |-> 0, target |-> t]

\* the longest chain of links a lookup follows before it gives up (ELOOP)
MaxLinkDepth == 3

\* the entry a path leads to once links are followed (stat); Absent when the
\* chain dangles or loops
RECURSIVE stat(_, _, _)
stat(f, p, depth) ==
    IF p \notin DOMAIN f THEN Absent
    ELSE IF f[p].kind # "link" THEN f[p]
    ELSE IF depth = 0 THEN Absent
    ELSE stat(f, f[p].target, depth - 1)

\* os.path.islink(p): lstat, the link itself
islink(f, p) == p \in DOMAIN f /\ f[p].kind = "link"

\* os.path.exists(p): follows links
exists(f, p) == stat(f, p, MaxLinkDepth).kind # "absent"

\* os.path.isdir(p): follows links
isdir(f, p) == stat(f, p, MaxLinkDepth).kind = "dir"

\* os.unlink(p): removes the entry at p, never what a link points to
unlink(f, p) == [f EXCEPT ![p] = Absent]

\* os.rename(src, dst) with nothing at dst: the entry itself moves, a link is
\* not followed
rename(f, src, dst) == [f EXCEPT ![dst] = f[src], ![src] = Absent]

\* os.path.basename(p)
basename(p) == StrFrom(p, str_rfind(p, "/", Len(p)) + 1)

\* os.path.dirname(p), for a path without doubled or trailing slashes
dirname(p) ==
    LET i == str_rfind(p, "/", Len(p))
    IN IF i <= 1 THEN SubSeq(p, 1, i) ELSE SubSeq(p, 1, i - 1)

\* os.path.join(a, b) for a relative b
path_join(a, b) ==
    IF a = "" \/ CharAt(a, Len(a)) = "/" THEN a \o b ELSE a \o "/" \o b

(***************************************************************************)
(* EB_AOMP.post_install_step, aomp.py lines 103-127.  The inherited        *)
(* post_install_step of line 104 works inside the install directory and    *)
(* leaves the entries at the install path and next to it as they are.      *)
(***************************************************************************)

\* lines 116-117
install_name == basename(self.installdir) \o "_" \o self.version

\* lines 118-119
actual_install == path_join(dirname(self.installdir), install_name)

\* the else branch of lines 111-114 left out: no link, no error
post_install_step_without_link_check ==
    /\ LET unlinked == IF islink(fs, self.installdir)
                       THEN unlink(fs, self.installdir) ELSE fs
       IN IF exists(unlinked, actual_install) /\ isdir(unlinked, actual_install)
          THEN /\ fs' = rename(unlinked, actual_install, self.installdir)
               /\ post_install_result' = "ok"
          ELSE /\ fs' = unlinked
               /\ post_install_result' = "error_no_directory"
    /\ UNCHANGED <<self, cfg, env, configure_result>>

\* the directory looked for before the link is removed
post_install_step_check_before_unlink ==
    /\ IF islink(fs, self.installdir)
       THEN IF exists(fs, actual_install) /\ isdir(fs, actual_install)
            THEN /\ fs' = rename(unlink(fs, self.installdir),
                                 actual_install, self.installdir)
                 /\ post_install_result' = "ok"
            ELSE /\ fs' = fs
                 /\ post_install_result' = "error_no_directory"
       ELSE /\ fs' = fs
            /\ post_install_result' = "error_not_a_link"
    /\ UNCHANGED <<self, cfg, env, configure_result>>

post_install_step ==
    /\ IF islink(fs, self.installdir)
       THEN LET unlinked == unlink(fs, self.installdir)
            IN IF exists(unlinked, actual_install) /\ isdir(unlinked, actual_install)
               THEN /\ fs' = rename(unlinked, actual_install, self.installdir)
                    /\ post_install_result' = "ok"
               ELSE /\ fs' = unlinked
                    /\ post_install_result' = "error_no_directory"
       ELSE /\ fs' = fs
            /\ post_install_result' = "error_not_a_link"
    /\ UNCHANGED <<self, cfg, env, configure_result>>

(***************************************************************************)
(* Initial states: the easyblock as EB_AOMP.__init__ (lines 41-45) leaves  *)
(* it, for every recipe, environment and file system of the bounded sets.  *)
(***************************************************************************)

\* a directory that is neither the install path nor its sibling
OtherDir == "/sw/AOMP/elsewhere"

\* the path next to installdir where the vendor script puts the real tree
SiblingOf(v) == InstallDirOf(v) \o "_" \o v

\* what can be at the install path before post_install_step
InstallEntries(v) == {Absent, Dir(1), File(4), Link(SiblingOf(v)), Link(OtherDir)}

\* what can be next to the install path
SiblingEntries(v) == {Absent, Dir(2), File(5), Link(OtherDir), Link(InstallDirOf(v))}

\* what can be at OtherDir
OtherEntries == {Absent, Dir(3)}

Init ==
    /\ \E v \in Versions :
          /\ self = [version |-> v, installdir |-> InstallDirOf(v),
                     builddir |-> BuildDirOf(v)]
          /\ \E i \in InstallEntries(v), s \in SiblingEntries(v), o \in OtherEntries :
                fs = (InstallDirOf(v) :> i) @@ (SiblingOf(v) :> s) @@ (OtherDir :> o)
    /\ \E par \in Parallels, cc \in RecipeCCs, comp \in RecipeComponents :
          cfg = [extract_sources |-> TRUE,
                 dontcreateinstalldir |-> TRUE,
                 parallel |-> par,
                 cuda_compute_capabilities |-> cc,
                 components |-> comp,
                 install_cmd |-> NoValue,
                 preinstallopts |-> "",
                 installopts |-> ""]
    /\ \E cmake \in RootsOf("CMake"), cuda \in RootsOf("CUDA"),
          cudacore \in RootsOf("CUDAcore"), bcc \in BuildOptionCCs :
          env = [roots |-> ("CMake" :> cmake) @@ ("CUDA" :> cuda)
                              @@ ("CUDAcore" :> cudacore),
                 build_options |-> [k \in {"cuda_compute_capabilities"} |-> bcc]]
    /\ configure_result = "none"
    /\ post_install_result = "none"

Next == configure_step \/ post_install_step

Spec == Init /\ [][Next]_vars

(***************************************************************************)
(* Vocabulary of the properties.                                           *)
(***************************************************************************)

\* the space-separated tokens of the stored preinstallopts
Tokens == str_split(cfg.preinstallopts, " ")

\* the characters of a string, as a sequence
Chars(s) == [i \in 1..Len(s) |-> CharAt(s, i)]

IsNotDot(c) == c # "."

\* both sources of compute capabilities are empty
NoCudaCC ==
    /\ Len(build_option("cuda_compute_capabilities")) = 0
    /\ Len(cfg.cuda_compute_capabilities) = 0

\* every file and directory of f is still somewhere in g
NothingLost(f, g) ==
    \A p \in DOMAIN f :
        f[p].kind \in {"file", "dir"} => \E q \in DOMAIN g : g[q] = f[p]

\* f and g agree everywhere but at the path p
SameExceptAt(f, g, p) == \A q \in DOMAIN f : q # p => g[q] = f[q]

(***************************************************************************)
(* C1.  As claimed: when CUDA or CUDAcore resolves and both lists of       *)
(* compute capabilities are empty, configure_step fails and has written    *)
(* none of install_cmd, preinstallopts and installopts.                    *)
(***************************************************************************)
C1_AsClaimed ==
    [][(configure_step /\ cuda_loaded /\ NoCudaCC)
          => /\ configure_result' = "error_no_cuda_cc"
             /\ cfg'.install_cmd = cfg.install_cmd
             /\ cfg'.preinstallopts = cfg.preinstallopts
             /\ cfg'.installopts = cfg.installopts]_vars

\* C1, amended: when CUDA or CUDAcore resolves and both lists of compute
\* capabilities are empty, configure_step fails having written neither
\* preinstallopts nor installopts; install_cmd, and nothing else of the
\* record, is already set to the path of the build script.
C1_FailsBeforeOptions ==
    [][(configure_step /\ cuda_loaded /\ NoCudaCC)
          => /\ configure_result' = "error_no_cuda_cc"
             /\ cfg'.preinstallopts = cfg.preinstallopts
             /\ cfg'.installopts = cfg.installopts
             /\ cfg' = [cfg EXCEPT !.install_cmd = Some("./aomp/bin/build_aomp.sh")]]_vars

C1_Witness ==
    /\ configure_result = "error_no_cuda_cc"
    /\ cuda_loaded /\ NoCudaCC
    /\ cfg.preinstallopts = "" /\ cfg.installopts = ""
    /\ cfg.install_cmd.some

(***************************************************************************)
(* C2.  As claimed: when the root of CMake does not resolve, configure_step*)
(* does not succeed and no preinstallopts with an AOMP_CMAKE token is      *)
(* stored.                                                                 *)
(***************************************************************************)
C2_AsClaimed ==
    ~Truthy(get_software_root("CMake"))
        => /\ configure_result # "ok"
           /\ ~str_contains(cfg.preinstallopts, "AOMP_CMAKE=")

(***************************************************************************)
(* C3.  When the install path is not a symbolic link, post_install_step    *)
(* fails with the "expected a symbolic link" error and the file system is  *)
(* as it was.                                                              *)
(***************************************************************************)
C3_NotALinkNoMutation ==
    [][(post_install_step /\ ~islink(fs, self.installdir))
          => /\ post_install_result' = "error_not_a_link"
             /\ fs' = fs]_vars

C3_Witness ==
    /\ post_install_result = "error_not_a_link"
    /\ fs[self.installdir].kind = "dir"
    /\ fs[SiblingOf(self.version)].kind = "dir"

(***************************************************************************)
(* C4.  As claimed: when the install path is a symbolic link and the       *)
(* sibling path exists and is a directory, post_install_step succeeds, the *)
(* install path is no longer a link, it is the directory that was found at *)
(* the sibling path, the sibling path is gone and no file or directory was *)
(* removed.                                                                *)
(***************************************************************************)
C4_AsClaimed ==
    [][(/\ post_install_step
        /\ islink(fs, self.installdir)
        /\ exists(fs, SiblingOf(self.version))
        /\ isdir(fs, SiblingOf(self.version)))
          => /\ post_install_result' = "ok"
             /\ ~islink(fs', self.installdir)
             /\ fs'[self.installdir].kind = "dir"
             /\ fs'[self.installdir].ino
                    = stat(fs, SiblingOf(self.version), MaxLinkDepth).ino
             /\ fs'[SiblingOf(self.version)].kind = "absent"
             /\ NothingLost(fs, fs')]_vars

(***************************************************************************)
(* C5.  When the install path is a symbolic link and the sibling path is   *)
(* missing or is not a directory, post_install_step fails, the link is     *)
(* gone, nothing is at the install path, everything else is as it was; and *)
(* no later step puts anything back at an empty install path.              *)
(***************************************************************************)
C5_NoRollback ==
    [][/\ (/\ post_install_step
           /\ islink(fs, self.installdir)
           /\ ~(exists(fs, SiblingOf(self.version))
                    /\ isdir(fs, SiblingOf(self.version))))
          => /\ post_install_result' = "error_no_directory"
             /\ fs'[self.installdir].kind = "absent"
             /\ SameExceptAt(fs, fs', self.installdir)
       /\ (post_install_result = "error_no_directory"
              /\ fs[self.installdir].kind = "absent")
          => fs'[self.installdir].kind = "absent"]_vars

C5_Witness ==
    /\ post_install_result = "error_no_directory"
    /\ fs[self.installdir].kind = "absent"
    /\ fs[SiblingOf(self.version)].kind = "file"

\* the list of capabilities the claim names
C6_ChosenList ==
    IF build_option("cuda_compute_capabilities") # <<>>
    THEN build_option("cuda_compute_capabilities")
    ELSE cfg.cuda_compute_capabilities

\* token is NVPTXGPUS="<items>", the items being those of list without dots
C6_IsTokenOf(token, list) ==
    /\ str_startswith(token, "NVPTXGPUS=\"")
    /\ CharAt(token, Len(token)) = "\""
    /\ LET items == str_split(SubSeq(token, 12, Len(token) - 1), ",")
       IN /\ Len(items) = Len(list)
          /\ \A i \in 1..Len(list) :
                Chars(items[i]) = SelectSeq(Chars(list[i]), IsNotDot)

(***************************************************************************)
(* C6.  After a successful configure_step with CUDA or CUDAcore resolved,  *)
(* the list of compute capabilities is the global build option when that   *)
(* is not empty and the recipe field otherwise, and preinstallopts holds   *)
(* the token NVPTXGPUS="<list>" whose comma-separated items are, in order, *)
(* the capabilities with every '.' removed; <<"7.0", "8.6">> gives         *)
(* NVPTXGPUS="70,86".                                                      *)
(***************************************************************************)
C6_CapabilityToken ==
    (configure_result = "ok" /\ cuda_loaded)
        => LET tokens == Tokens
               list == C6_ChosenList
           IN /\ \E i \in 1..Len(tokens) : C6_IsTokenOf(tokens[i], list)
              /\ \A i \in 1..Len(tokens) :
                    str_startswith(tokens[i], "NVPTXGPUS")
                        => C6_IsTokenOf(tokens[i], list)
              /\ list = <<"7.0", "8.6">>
                    => \E i \in 1..Len(tokens) : tokens[i] = "NVPTXGPUS=\"70,86\""

C6_Witness ==
    /\ configure_result = "ok" /\ cuda_loaded
    /\ build_option("cuda_compute_capabilities") = <<"7.0", "8.6">>
    /\ cfg.cuda_compute_capabilities = <<"6.1">>
    /\ str_contains(cfg.preinstallopts, "NVPTXGPUS=\"70,86\"")

\* where the AOMP_BUILD_CUDA tokens are
C7_BuildCudaPositions(tokens) ==
    {i \in 1..Len(tokens) : str_startswith(tokens[i], "AOMP_BUILD_CUDA")}

\* the root the claim names
C7_ExpectedRoot ==
    IF env.roots["CUDA"].some THEN env.roots["CUDA"].val
    ELSE env.roots["CUDAcore"].val

(***************************************************************************)
(* C7.  After a successful configure_step preinstallopts has exactly one   *)
(* AOMP_BUILD_CUDA token.  With neither CUDA nor CUDAcore resolved it is   *)
(* AOMP_BUILD_CUDA=0 and the string has no NVPTXGPUS and no CUDA= token.   *)
(* Otherwise it is AOMP_BUILD_CUDA=1, followed by CUDA="<root>" and an     *)
(* NVPTXGPUS token, the root being that of CUDA when CUDA resolves and     *)
(* that of CUDAcore only otherwise.                                        *)
(***************************************************************************)
C7_BuildCudaToken ==
    configure_result = "ok"
        => LET tokens == Tokens
               positions == C7_BuildCudaPositions(tokens)
           IN /\ Cardinality(positions) = 1
              /\ (~env.roots["CUDA"].some /\ ~env.roots["CUDAcore"].some)
                    => /\ \A i \in positions : tokens[i] = "AOMP_BUILD_CUDA=0"
                       /\ ~str_contains(cfg.preinstallopts, "NVPTXGPUS")
                       /\ \A i \in 1..Len(tokens) : ~str_startswith(tokens[i], "CUDA=")
              /\ (env.roots["CUDA"].some \/ env.roots["CUDAcore"].some)
                    => \A i \in positions :
                          /\ tokens[i] = "AOMP_BUILD_CUDA=1"
                          /\ Len(tokens) = i + 2
                          /\ tokens[i + 1] = "CUDA=\"" \o C7_ExpectedRoot \o "\""
                          /\ str_startswith(tokens[i + 2], "NVPTXGPUS=")

C7_Witness ==
    /\ configure_result = "ok"
    /\ env.roots["CUDA"].some /\ env.roots["CUDAcore"].some
    /\ str_contains(cfg.preinstallopts, "AOMP_BUILD_CUDA=1 CUDA=\"/sw/CUDA\" NVPTXGPUS=")

(***************************************************************************)
(* C8.  After a successful configure_step installopts is "select "         *)
(* followed by the space-joined component names: the 11 default names when *)
(* the recipe gives no components, the recipe's list as it is otherwise,   *)
(* names outside the catalog included.                                     *)
(***************************************************************************)
C8_InstallOpts ==
    configure_result = "ok"
        => /\ cfg.components = <<>>
                 => cfg.installopts =
                      "select roct rocr project libdevice openmp extras pgmath flang flang_runtime comgr rocminfo"
           /\ cfg.components # <<>>
                 => str_split(cfg.installopts, " ") = <<"select">> \o cfg.components

C8_Witness ==
    /\ configure_result = "ok"
    /\ \E i \in 1..Len(cfg.components) :
          cfg.components[i] \notin Elems(AOMP_ALL_COMPONENTS)
    /\ str_contains(cfg.installopts, "notacomponent")

\* the four named subsets
C9_Subsets ==
    <<Elems(AOMP_DEFAULT_COMPONENTS), Elems(AOMP_X86_COMPONENTS),
      Elems(AOMP_DBG_COMPONENTS), Elems(AOMP_PROF_COMPONENTS)>>

\* the subsets are pairwise disjoint, their union is the catalog, the default
\* subset has 11 names, and the components configure_step selects for a
\* recipe without components are names of the catalog
C9_Partition ==
    /\ \A i, j \in 1..4 : i # j => C9_Subsets[i] \cap C9_Subsets[j] = {}
    /\ UNION {C9_Subsets[i] : i \in 1..4} = Elems(AOMP_ALL_COMPONENTS)
    /\ NoDup(AOMP_ALL_COMPONENTS)
    /\ Len(AOMP_DEFAULT_COMPONENTS) = 11
    /\ cfg.components = <<>>
          => Elems(selected_components) \subseteq Elems(AOMP_ALL_COMPONENTS)

(***************************************************************************)
(* C9.  As claimed: the catalog has 17 names and the default, x86, debug   *)
(* and profiling subsets are pairwise disjoint with the catalog as their   *)
(* union.                                                                  *)
(***************************************************************************)
C9_AsClaimed ==
    /\ C9_Partition
    /\ Len(AOMP_ALL_COMPONENTS) = 17

\* C9, amended: the catalog has 18 names, without repetition, and the
\* default (11 names), x86, debug and profiling subsets are pairwise
\* disjoint with the catalog as their union.
C9_CatalogPartition ==
    /\ C9_Partition
    /\ Len(AOMP_ALL_COMPONENTS) = 18

C9_Witness ==
    /\ configure_result = "ok"
    /\ cfg.components = <<>>
    /\ Elems(Tail(str_split(cfg.installopts, " "))) \subseteq Elems(AOMP_ALL_COMPONENTS)

(***************************************************************************)
(* C10.  As claimed: after a successful post_install_step the install path *)
(* is a real directory, and another post_install_step fails with the       *)
(* "expected a symbolic link" error and leaves the file system as it is.   *)
(***************************************************************************)
C10_AsClaimed ==
    [][post_install_result = "ok"
          => /\ fs[self.installdir].kind = "dir"
             /\ post_install_step
                   => /\ post_install_result' = "error_not_a_link"
                      /\ fs' = fs]_vars

====
